---- MODULE Spec2Model ----
(***************************************************************************)
(* A model of the LSM key-value server (server/src): the 256-ary trie      *)
(* (trie.rs), the WAL / snapshot persistence with its two slots and the    *)
(* event dispatcher (event.rs), and the connection tasks that feed the     *)
(* dispatcher (main.rs): their handshake, their request loop and, at the   *)
(* level of bytes, the framing of requests and responses.                  *)
(*                                                                         *)
(* A trie is modelled by the set of its nodes, each node named by the path *)
(* of bytes that leads to it from the root: a function from paths to the   *)
(* node's value.  Files are sequences of bytes (0..255); a write to a file  *)
(* is taken as done when the call returns.                                 *)
(***************************************************************************)
EXTENDS Integers, Sequences, FiniteSets, TLC

\* ---------------------------------------------------------------- constants
NODE_SIZE == 256
HELLO_NUM == 77
LEN_MASK == 32767
NONE_VALUE_LEN == 65535
FILE_BATCH == 2
OP_GET == 193
OP_SET == 194
RES_GET == 129
RES_SET == 130

\* ------------------------------------------------------------------- bounds
\* Number of set operations applied in the trie specification.
MaxOps == 3
\* Number of requests the connections submit in a run.
MaxReq == 2
\* Number of crashes in a run.
MaxCrash == 1
\* Stand-in for the 10 MiB rotation threshold (bytes of the active WAL).
WalLimit == 3
\* Stand-in for the capacity 128 of the shared request queue.
QueueCap == 2
\* Stand-in for the capacity 16 of a connection's response queue.
RespCap == 1
\* Number of request frames in the byte stream a peer sends.
MaxFrames == 2

\* ------------------------------------------------------------------ options
None == [some |-> FALSE, v |-> <<>>]
Some(v) == [some |-> TRUE, v |-> v]

\* Keys and values the specifications draw their inputs from: the empty key,
\* keys that are proper prefixes / extensions of one another, siblings, the
\* empty value and the tombstone.
Keys == {<<>>, <<0>>, <<1>>, <<0, 0>>, <<0, 1>>}
Values == {None, Some(<<>>), Some(<<0>>), Some(<<1>>)}

\* Keys and values of the requests the connections submit.
SysKeys == {<<0>>}
SysValues == {None, Some(<<1>>)}

\* -------------------------------------------------------------------- trie
\* Trie::new: a root with no children and no value.
TrieNew == [p \in {<<>>} |-> None]

\* A do_set that gives up at a missing child instead of creating it.
RECURSIVE DoSetSkipsCreate(_, _, _, _)
DoSetSkipsCreate(t, key, value, index) ==
    LET p == SubSeq(key, 1, index)
    IN  IF index > Len(key) THEN t
        ELSE IF index = Len(key) THEN [t EXCEPT ![p] = value]
        ELSE LET c == SubSeq(key, 1, index + 1)
             IN  IF c \in DOMAIN t
                 THEN DoSetSkipsCreate(t, key, value, index + 1)
                 ELSE t

\* A do_set that clears the value of every node it passes through.
RECURSIVE DoSetClearsPath(_, _, _, _)
DoSetClearsPath(t, key, value, index) ==
    LET p == SubSeq(key, 1, index)
    IN  IF index > Len(key) THEN t
        ELSE IF index = Len(key) THEN [t EXCEPT ![p] = value]
        ELSE LET c == SubSeq(key, 1, index + 1)
             IN  IF c \in DOMAIN t
                 THEN DoSetClearsPath([t EXCEPT ![p] = None], key, value, index + 1)
                 ELSE DoSetClearsPath(t @@ (c :> None), key, value, index + 1)

\* A do_set whose tombstone removes the subtree below the node.
RECURSIVE DoSetPrunesOnTombstone(_, _, _, _)
DoSetPrunesOnTombstone(t, key, value, index) ==
    LET p == SubSeq(key, 1, index)
    IN  IF index > Len(key) THEN t
        ELSE IF index = Len(key)
             THEN IF value.some
                  THEN [t EXCEPT ![p] = value]
                  ELSE [q \in {r \in DOMAIN t :
                                  \/ Len(r) <= Len(p)
                                  \/ SubSeq(r, 1, Len(p)) # p} |->
                            IF q = p THEN None ELSE t[q]]
        ELSE LET c == SubSeq(key, 1, index + 1)
             IN  IF c \in DOMAIN t
                 THEN DoSetPrunesOnTombstone(t, key, value, index + 1)
                 ELSE DoSetPrunesOnTombstone(t @@ (c :> None), key, value, index + 1)

\* Trie::do_set: descend one byte at a time from node `index`, creating the
\* missing child, and overwrite the value of the node at depth Len(key).
RECURSIVE DoSet(_, _, _, _)
DoSet(t, key, value, index) ==
    LET p == SubSeq(key, 1, index)
    IN  IF index > Len(key) THEN t
        ELSE IF index = Len(key) THEN [t EXCEPT ![p] = value]
        ELSE LET c == SubSeq(key, 1, index + 1)
             IN  IF c \in DOMAIN t
                 THEN DoSet(t, key, value, index + 1)
                 ELSE DoSet(t @@ (c :> None), key, value, index + 1)

\* Trie::set
Set(t, key, value) == DoSet(t, key, value, 0)

\* A do_get that answers a missing child with the value of the last node found.
RECURSIVE DoGetIgnoresMissing(_, _, _)
DoGetIgnoresMissing(t, key, index) ==
    LET p == SubSeq(key, 1, index)
    IN  IF index > Len(key) THEN None
        ELSE IF index = Len(key) THEN t[p]
        ELSE LET c == SubSeq(key, 1, index + 1)
             IN  IF c \in DOMAIN t THEN DoGetIgnoresMissing(t, key, index + 1) ELSE t[p]

\* Trie::do_get: descend; None when a child is missing, else the value of
\* the node at depth Len(key).
RECURSIVE DoGet(_, _, _)
DoGet(t, key, index) ==
    LET p == SubSeq(key, 1, index)
    IN  IF index > Len(key) THEN None
        ELSE IF index = Len(key) THEN t[p]
        ELSE LET c == SubSeq(key, 1, index + 1)
             IN  IF c \in DOMAIN t THEN DoGet(t, key, index + 1) ELSE None

\* Trie::get
Get(t, key) == DoGet(t, key, 0)

\* ------------------------------------------------------------ record codec
\* `(len as u16 & LEN_MASK) >> 8) as u8` and `len as u8`: the two length bytes.
LenHi(n) == ((n % 65536) % (LEN_MASK + 1)) \div 256
LenLo(n) == n % 256

\* A record in which an empty value is written as the tombstone sentinel.
WalRecordEmptyAsTombstone(key, value) ==
    <<LenHi(Len(key)), LenLo(Len(key))>> \o key \o
    (IF value.some /\ value.v # <<>>
     THEN <<LenHi(Len(value.v)), LenLo(Len(value.v))>> \o value.v
     ELSE <<NONE_VALUE_LEN \div 256, NONE_VALUE_LEN % 256>>)

\* The record the dispatcher appends to the WAL for a SET (one write_all).
WalRecord(key, value) ==
    <<LenHi(Len(key)), LenLo(Len(key))>> \o key \o
    (IF value.some
     THEN <<LenHi(Len(value.v)), LenLo(Len(value.v))>> \o value.v
     ELSE <<NONE_VALUE_LEN \div 256, NONE_VALUE_LEN % 256>>)

\* do_write: the six writes the snapshot writer makes for one stored pair.
DoWrite(key, value) ==
    << <<LenHi(Len(key))>>, <<LenLo(Len(key))>>, key,
       <<LenHi(Len(value))>>, <<LenLo(Len(value))>>, value >>

\* Trie::do_save: pre-order traversal from node p, children by byte value;
\* the sequence of writes it makes.
RECURSIVE DoSave(_, _)
RECURSIVE SaveChildren(_, _, _)
\* A traversal that does not descend below a node without a value.
DoSaveStopsAtEmptyNode(t, p) ==
    IF t[p].some THEN DoWrite(p, t[p].v) \o SaveChildren(t, p, 0) ELSE <<>>

DoSave(t, p) ==
    (IF t[p].some THEN DoWrite(p, t[p].v) ELSE <<>>) \o SaveChildren(t, p, 0)
SaveChildren(t, p, i) ==
    \* `for i in 0..NODE_SIZE`, from i on: the next slot that holds a child.
    LET rest == {q[Len(q)] : q \in {r \in DOMAIN t :
                                       /\ Len(r) = Len(p) + 1
                                       /\ SubSeq(r, 1, Len(p)) = p
                                       /\ r[Len(r)] \in i .. NODE_SIZE - 1}}
    IN  IF rest = {} THEN <<>>
        ELSE LET j == CHOOSE m \in rest : \A n \in rest : m <= n
             IN  DoSave(t, Append(p, j)) \o SaveChildren(t, p, j + 1)

\* Trie::save
Save(t) == DoSave(t, <<>>)

\* Trie::clone: a copy of every node.
Clone(t) == [p \in DOMAIN t |-> t[p]]

RECURSIVE Load(_, _, _)
RECURSIVE LoadTakesShortValue(_, _, _)
\* A load that applies a record whose value is cut short by the end of the
\* file, with the bytes that are there.
LoadTakesShortValue(t, buf, index) ==
    LET len == Len(buf)
        key_len == (buf[index + 1] * 256 + buf[index + 2]) % (LEN_MASK + 1)
        key == SubSeq(buf, index + 3, index + 2 + key_len)
        value_len == buf[index + 2 + key_len + 1] * 256 + buf[index + 2 + key_len + 2]
        vlen == value_len % (LEN_MASK + 1)
        last == IF index + 2 + key_len + 2 + vlen > len THEN len
                ELSE index + 2 + key_len + 2 + vlen
        value == SubSeq(buf, index + 2 + key_len + 2 + 1, last)
    IN  IF ~(index < len) THEN t
        ELSE IF index + 2 > len THEN t
        ELSE IF index + 2 + key_len + 2 > len THEN t
        ELSE IF value_len = NONE_VALUE_LEN
             THEN LoadTakesShortValue(Set(t, key, None), buf, index + 2 + key_len + 2)
        ELSE LoadTakesShortValue(Set(t, key, Some(value)), buf, last)

\* EventHandler::load: parse buf from (0-based) position index and apply each
\* complete record to the trie; stop at the first incomplete one.
Load(t, buf, index) ==
    LET len == Len(buf)
        key_len == (buf[index + 1] * 256 + buf[index + 2]) % (LEN_MASK + 1)
        key == SubSeq(buf, index + 3, index + 2 + key_len)
        value_len == buf[index + 2 + key_len + 1] * 256 + buf[index + 2 + key_len + 2]
        vlen == value_len % (LEN_MASK + 1)
        value == SubSeq(buf, index + 2 + key_len + 2 + 1, index + 2 + key_len + 2 + vlen)
    IN  IF ~(index < len) THEN t
        ELSE IF index + 2 > len THEN t
        ELSE IF index + 2 + key_len + 2 > len THEN t
        ELSE IF value_len = NONE_VALUE_LEN
             THEN Load(Set(t, key, None), buf, index + 2 + key_len + 2)
        ELSE IF index + 2 + key_len + 2 + vlen > len THEN t
        ELSE Load(Set(t, key, Some(value)), buf, index + 2 + key_len + 2 + vlen)

\* ---------------------------------------------------------------- variables
VARIABLES
    trie,        \* the live Trie Store (EventHandler.trie)
    hist,        \* history: the set operations applied so far, in order
    wal_files,   \* contents of WAL_FILE_0 and WAL_FILE_1
    log_files,   \* contents of LOG_FILE_0 and LOG_FILE_1 (the snapshots)
    index_file,  \* contents of the INDEX file
    file_index,  \* the dispatcher's active slot
    saving,      \* the in-flight flag
    tasks,       \* the spawned snapshot writers that have not finished
    pc,          \* where the dispatcher is
    event,       \* the event the dispatcher is processing
    queue,       \* the shared request queue
    client_map,  \* the ids in the Client Registry
    conn,        \* each connection task: where it is (at), the handshake steps
                 \* it has passed (hello), the event it is forwarding (ev)
    resp,        \* each connection's response queue
    nreq,        \* history: number of requests submitted
    ncrash,      \* history: number of crashes
    last_wal,    \* history: per key, the value of the last SET appended to a WAL
    ref_trie,    \* history: the trie of a dispatcher that never rotates
    recovered,   \* history: the trie each startup recovered
    stream,      \* history: all the bytes the peer of one connection sends
    unread,      \* the bytes of them no socket.read has delivered yet
    b,           \* that connection task's buffer of unconsumed input
    events,      \* the events that connection task has passed to event_tx.send
    shut,        \* that connection task has shut down on an unknown opcode
    out,         \* the bytes it wrote to the socket for the last response
    last_res     \* history: the last response it took off its queue

trieVars == <<trie, hist>>
fileVars == <<wal_files, log_files, index_file>>
dispVars == <<file_index, saving, tasks, pc, event>>
connVars == <<queue, client_map, conn, resp, nreq>>
ghostVars == <<ncrash, last_wal, ref_trie, recovered>>
frameVars == <<stream, unread, b, events, shut, out, last_res>>
sysVars == <<fileVars, dispVars, connVars, ghostVars, frameVars>>
vars == <<trieVars, sysVars>>

Clients == {"c1", "c2"}
Slots == 0 .. FILE_BATCH - 1
NoEvent == [kind |-> "NONE", id |-> "", key |-> <<>>, value |-> None, n |-> 0]
NoRes == [kind |-> "NONE", id |-> "", value |-> None, n |-> 0]
\* No connection task: nothing accepted yet, or the task has returned.
NoConn == [at |-> "closed", hello |-> 0, ev |-> NoEvent]

\* The volatile state of a freshly started process.
ProcessInit ==
    /\ trie = TrieNew
    /\ file_index = 0
    /\ saving = FALSE
    /\ tasks = <<>>
    /\ pc = "start"
    /\ event = NoEvent
    /\ queue = <<>>
    /\ client_map = {}
    /\ conn = [c \in Clients |-> NoConn]
    /\ resp = [c \in Clients |-> <<>>]

\* A connection on which no byte has been sent or written yet.
FrameIdle ==
    /\ b = <<>>
    /\ events = <<>>
    /\ shut = FALSE
    /\ out = <<>>
    /\ last_res = NoRes

\* EventHandler::new on an empty data directory: five empty files.
Init ==
    /\ ProcessInit
    /\ FrameIdle
    /\ stream = <<>>
    /\ unread = <<>>
    /\ hist = <<>>
    /\ wal_files = [i \in Slots |-> <<>>]
    /\ log_files = [i \in Slots |-> <<>>]
    /\ index_file = <<>>
    /\ nreq = 0
    /\ ncrash = 0
    /\ last_wal = [k \in Keys |-> None]
    /\ ref_trie = TrieNew
    /\ recovered = <<>>

\* ------------------------------------------------------ trie specification
\* The trie alone, driven by arbitrary sequences of set operations.
TrieInit == Init

TrieSet ==
    /\ Len(hist) < MaxOps
    /\ \E k \in Keys, v \in Values :
        /\ trie' = Set(trie, k, v)
        /\ hist' = Append(hist, [key |-> k, value |-> v])
    /\ UNCHANGED sysVars

TrieNext == TrieSet

SpecTrie == TrieInit /\ [][TrieNext]_vars

\* ----------------------------------------------------------- persistence
\* A refresh_index_file that writes at the end of the file.
RefreshIndexFileAppends(f, i) == f \o <<i>>

\* refresh_index_file: seek to 0, write one byte, sync.
RefreshIndexFile(f, i) == IF f = <<>> THEN <<i>> ELSE <<i>> \o Tail(f)

\* A startup that takes slot 1 when the index file names no slot.
ReadIndexDefaultsToOne(f) == IF f # <<>> /\ f[1] \in {0, 1} THEN f[1] ELSE 1

\* The slot start_event_loop takes from the index file: its first byte when
\* that is 0 or 1, else the default 0.
ReadIndex(f) == IF f # <<>> /\ f[1] \in {0, 1} THEN f[1] ELSE 0

\* A startup that persists 1 as the default while it goes on with slot 0.
IndexAfterReadWritesOne(f) ==
    IF f # <<>> /\ f[1] \in {0, 1} THEN f ELSE RefreshIndexFile(f, 1)

\* The index file after start_event_loop read it: rewritten with the default
\* only when it was unreadable or out of range.
IndexAfterRead(f) ==
    IF f # <<>> /\ f[1] \in {0, 1} THEN f ELSE RefreshIndexFile(f, 0)

\* A replay that takes the active slot's files before the inactive slot's.
ReplayActiveFirst(t, i, wals, logs) ==
    LET file_index_last == FILE_BATCH - 1 - i
        t1 == Load(t, logs[i], 0)
        t2 == Load(t1, wals[i], 0)
        t3 == Load(t2, logs[file_index_last], 0)
    IN  Load(t3, wals[file_index_last], 0)

\* The four loads of start_event_loop into trie t, for active slot i: last
\* log, last wal, this log, this wal.
Replay(t, i, wals, logs) ==
    LET file_index_last == FILE_BATCH - 1 - i
        t1 == Load(t, logs[file_index_last], 0)
        t2 == Load(t1, wals[file_index_last], 0)
        t3 == Load(t2, logs[i], 0)
    IN  Load(t3, wals[i], 0)

\* ------------------------------------------------------------- dispatcher
\* start_event_loop up to the loop: read the index, replay the four files.
Startup ==
    /\ pc = "start"
    /\ file_index' = ReadIndex(index_file)
    /\ index_file' = IndexAfterRead(index_file)
    /\ trie' = Replay(trie, ReadIndex(index_file), wal_files, log_files)
    /\ ref_trie' = trie'
    /\ recovered' = Append(recovered, trie')
    /\ saving' = FALSE
    /\ pc' = "recv"
    /\ UNCHANGED <<frameVars, hist, wal_files, log_files, tasks, event, connVars, ncrash, last_wal>>

\* self.receiver.recv(): take the next event off the shared queue.
Recv ==
    /\ pc = "recv"
    /\ queue # <<>>
    /\ event' = Head(queue)
    /\ queue' = Tail(queue)
    /\ pc' = IF Head(queue).kind = "GET" THEN "get" ELSE "wal"
    /\ UNCHANGED <<frameVars, trieVars, fileVars, file_index, saving, tasks, client_map, conn,
                   resp, nreq, ghostVars>>

\* The receiving end of connection c's response queue exists for as long as
\* the connection task runs.
Alive(c) == conn[c].at # "closed"

\* Client::send_event_res: enqueue on the connection's response queue; the
\* sender waits while the queue is full, and a send to a queue whose
\* receiving end is gone returns at once with nothing enqueued.
CanSend(c) == ~Alive(c) \/ Len(resp[c]) < RespCap
SendEventRes(c, r) ==
    resp' = IF Alive(c) THEN [resp EXCEPT ![c] = Append(@, r)] ELSE resp

\* Event::GET, client_map.get_mut(&id).
GetLookup ==
    /\ pc = "get"
    /\ pc' = IF event.id \in client_map THEN "get_send" ELSE "check"
    /\ UNCHANGED <<frameVars, trieVars, fileVars, file_index, saving, tasks, event, connVars,
                   ghostVars>>

\* A lookup that creates the nodes on the way to the key it looks for.
GetSendCreatesPath ==
    /\ pc = "get_send"
    /\ CanSend(event.id)
    /\ SendEventRes(event.id, [kind |-> "GET", id |-> event.id,
                               value |-> Get(trie, event.key), n |-> event.n])
    /\ trie' = Set(trie, event.key, Get(trie, event.key))
    /\ pc' = "check"
    /\ UNCHANGED <<frameVars, hist, fileVars, file_index, saving, tasks, event, queue,
                   client_map, conn, nreq, ghostVars>>

\* Event::GET, send_event_res(EventRes::GET {id, value: self.trie.get(key)}).
GetSend ==
    /\ pc = "get_send"
    /\ CanSend(event.id)
    /\ SendEventRes(event.id, [kind |-> "GET", id |-> event.id,
                               value |-> Get(trie, event.key), n |-> event.n])
    /\ pc' = "check"
    /\ UNCHANGED <<frameVars, trieVars, fileVars, file_index, saving, tasks, event, queue,
                   client_map, conn, nreq, ghostVars>>

\* A SET whose record never reaches the WAL.
WalAppendLost ==
    /\ pc = "wal"
    /\ last_wal' = [last_wal EXCEPT ![event.key] = event.value]
    /\ pc' = "set"
    /\ UNCHANGED <<frameVars, trieVars, fileVars, file_index, saving, tasks, event,
                   connVars, ncrash, ref_trie, recovered>>

\* Event::SET, the WAL append: build the record, write_all to the active WAL.
WalAppend ==
    /\ pc = "wal"
    /\ wal_files' = [wal_files EXCEPT
                        ![file_index] = @ \o WalRecord(event.key, event.value)]
    /\ last_wal' = [last_wal EXCEPT ![event.key] = event.value]
    /\ pc' = "set"
    /\ UNCHANGED <<frameVars, trieVars, log_files, index_file, file_index, saving, tasks, event,
                   connVars, ncrash, ref_trie, recovered>>

\* Event::SET, client_map.get_mut(&id): the trie is set in the Some branch.
SetApply ==
    /\ pc = "set"
    /\ IF event.id \in client_map
       THEN /\ trie' = Set(trie, event.key, event.value)
            /\ ref_trie' = Set(ref_trie, event.key, event.value)
            /\ pc' = "set_send"
       ELSE /\ pc' = "check"
            /\ UNCHANGED <<frameVars, trie, ref_trie>>
    /\ UNCHANGED <<frameVars, hist, fileVars, file_index, saving, tasks, event, connVars,
                   ncrash, last_wal, recovered>>

\* Event::SET, send_event_res(EventRes::SET {id}).
SetSend ==
    /\ pc = "set_send"
    /\ CanSend(event.id)
    /\ SendEventRes(event.id, [kind |-> "SET", id |-> event.id, value |-> None,
                               n |-> event.n])
    /\ pc' = "check"
    /\ UNCHANGED <<frameVars, trieVars, fileVars, file_index, saving, tasks, event, queue,
                   client_map, conn, nreq, ghostVars>>

\* The size check after each event.
MustRotate == Len(wal_files[file_index]) > WalLimit /\ ~saving

\* The check fails: back to the top of the loop.
NoRotate ==
    /\ pc = "check"
    /\ ~MustRotate
    /\ pc' = "recv"
    /\ event' = NoEvent
    /\ UNCHANGED <<frameVars, trieVars, fileVars, file_index, saving, tasks, connVars, ghostVars>>

\* Rotation, first step: flip file_index and persist it.
RotateIndex ==
    /\ pc = "check"
    /\ MustRotate
    /\ file_index' = FILE_BATCH - 1 - file_index
    /\ index_file' = RefreshIndexFile(index_file, file_index')
    /\ pc' = "truncate"
    /\ event' = NoEvent
    /\ UNCHANGED <<frameVars, trieVars, wal_files, log_files, saving, tasks, connVars, ghostVars>>

\* Rotation, second step: wal_files[file_index].set_len(0).
RotateTruncate ==
    /\ pc = "truncate"
    /\ wal_files' = [wal_files EXCEPT ![file_index] = <<>>]
    /\ pc' = "spawn"
    /\ UNCHANGED <<frameVars, trieVars, log_files, index_file, file_index, saving, tasks, event,
                   connVars, ghostVars>>

\* A rotation that hands the live trie to the writer and goes on with an
\* empty one.
RotateSpawnMovesTrie ==
    /\ pc = "spawn"
    /\ tasks' = Append(tasks, [slot |-> file_index, clone_trie |-> trie,
                               at |-> "start", todo |-> Save(trie)])
    /\ trie' = TrieNew
    /\ pc' = "recv"
    /\ UNCHANGED <<frameVars, hist, fileVars, file_index, saving, event, connVars, ghostVars>>

\* Rotation, third step: clone the trie and spawn the snapshot writer.
RotateSpawn ==
    /\ pc = "spawn"
    /\ tasks' = Append(tasks, [slot |-> file_index, clone_trie |-> Clone(trie),
                               at |-> "start", todo |-> Save(Clone(trie))])
    /\ pc' = "recv"
    /\ UNCHANGED <<frameVars, trieVars, fileVars, file_index, saving, event, connVars, ghostVars>>

\* -------------------------------------------------------- snapshot writer
RemoveAt(q, i) == SubSeq(q, 1, i - 1) \o SubSeq(q, i + 1, Len(q))

\* clone_saving.store(true)
WriterStart ==
    \E i \in 1 .. Len(tasks) :
        /\ tasks[i].at = "start"
        /\ saving' = TRUE
        /\ tasks' = [tasks EXCEPT ![i].at = "truncate"]
        /\ UNCHANGED <<frameVars, trieVars, fileVars, file_index, pc, event, connVars, ghostVars>>

\* file.lock().await.set_len(0)
WriterTruncate ==
    \E i \in 1 .. Len(tasks) :
        /\ tasks[i].at = "truncate"
        /\ log_files' = [log_files EXCEPT ![tasks[i].slot] = <<>>]
        /\ tasks' = [tasks EXCEPT ![i].at = "save"]
        /\ UNCHANGED <<frameVars, trieVars, wal_files, index_file, file_index, saving, pc, event,
                       connVars, ghostVars>>

\* clone_trie.save(&file): the next write of the traversal of the clone (todo
\* holds the writes of the traversal not made yet; the file is open in append
\* mode).
WriterWrite ==
    \E i \in 1 .. Len(tasks) :
        /\ tasks[i].at = "save"
        /\ tasks[i].todo # <<>>
        /\ log_files' = [log_files EXCEPT ![tasks[i].slot] = @ \o Head(tasks[i].todo)]
        /\ tasks' = [tasks EXCEPT ![i].todo = Tail(@)]
        /\ UNCHANGED <<frameVars, trieVars, wal_files, index_file, file_index, saving, pc, event,
                       connVars, ghostVars>>

\* clone_saving.store(false): the task ends.
WriterDone ==
    \E i \in 1 .. Len(tasks) :
        /\ tasks[i].at = "save"
        /\ tasks[i].todo = <<>>
        /\ saving' = FALSE
        /\ tasks' = RemoveAt(tasks, i)
        /\ UNCHANGED <<frameVars, trieVars, fileVars, file_index, pc, event, connVars, ghostVars>>

\* ------------------------------------------------------------ connections
\* The dispatcher holds the registry entry of id c (between get_mut and the
\* end of send_event_res).
EntryHeld(c) == pc \in {"get_send", "set_send"} /\ event.id = c

\* The connection task of c moves to position `at`.
Goto(c, at) == conn' = [conn EXCEPT ![c].at = at]

\* A connection is accepted: its task makes a fresh response channel and
\* inserts its handle in the registry (the insert waits while the dispatcher
\* holds an entry of that id).
Connect(c) ==
    /\ conn[c].at = "closed"
    /\ ~EntryHeld(c)
    /\ conn' = [conn EXCEPT ![c] = [at |-> "hello_write", hello |-> 0, ev |-> NoEvent]]
    /\ client_map' = client_map \cup {c}
    /\ resp' = [resp EXCEPT ![c] = <<>>]
    /\ UNCHANGED <<frameVars, trieVars, fileVars, dispVars, queue, nreq, ghostVars>>

\* socket.write_u8(HELLO_NUM): on an error the task shuts down.
HelloWrite(c) ==
    /\ conn[c].at = "hello_write"
    /\ \E ok \in BOOLEAN :
        conn' = [conn EXCEPT ![c].at = IF ok THEN "hello_read" ELSE "shutdown",
                             ![c].hello = IF ok THEN 1 ELSE 0]
    /\ UNCHANGED <<frameVars, trieVars, fileVars, dispVars, queue, client_map, resp, nreq, ghostVars>>

\* A wait for the echo that lets every byte pass.
HelloReadAcceptsAny(c) ==
    /\ conn[c].at = "hello_read"
    /\ \E r \in {HELLO_NUM, 0, -1} :
        conn' = [conn EXCEPT ![c].at = IF r # -1 THEN "select" ELSE "shutdown",
                             ![c].hello = IF r = HELLO_NUM THEN 2 ELSE 1]
    /\ UNCHANGED <<frameVars, trieVars, fileVars, dispVars, queue, client_map, resp, nreq, ghostVars>>

\* socket.read_u8(): the byte r the peer sent, or an error (-1); the task
\* goes on to the request loop only when r is HELLO_NUM.
HelloRead(c) ==
    /\ conn[c].at = "hello_read"
    /\ \E r \in {HELLO_NUM, 0, -1} :
        conn' = [conn EXCEPT ![c].at = IF r = HELLO_NUM THEN "select" ELSE "shutdown",
                             ![c].hello = IF r = HELLO_NUM THEN 2 ELSE 1]
    /\ UNCHANGED <<frameVars, trieVars, fileVars, dispVars, queue, client_map, resp, nreq, ghostVars>>

\* A read completes a request frame and the top of the loop builds event e
\* from it: the task is about to send e to the dispatcher.
Framed(c, e) ==
    /\ conn[c].at = "select"
    /\ nreq < MaxReq
    /\ conn' = [conn EXCEPT ![c].at = "send", ![c].ev = [e EXCEPT !.n = nreq + 1]]
    /\ nreq' = nreq + 1
    /\ UNCHANGED <<frameVars, trieVars, fileVars, dispVars, queue, client_map, resp, ghostVars>>

SubmitGet(c) ==
    \E k \in SysKeys :
        Framed(c, [kind |-> "GET", id |-> c, key |-> k, value |-> None, n |-> 0])

SubmitSet(c) ==
    \E k \in SysKeys, v \in SysValues :
        Framed(c, [kind |-> "SET", id |-> c, key |-> k, value |-> v, n |-> 0])

\* event_tx.send(event).await: the task waits while the shared queue is full.
Forward(c) ==
    /\ conn[c].at = "send"
    /\ Len(queue) < QueueCap
    /\ queue' = Append(queue, conn[c].ev)
    /\ conn' = [conn EXCEPT ![c].at = "select", ![c].ev = NoEvent]
    /\ UNCHANGED <<frameVars, trieVars, fileVars, dispVars, client_map, resp, nreq, ghostVars>>

\* client_rx.recv() in the select: the task takes a response off its queue
\* and writes it to the socket; on a write error it shuts down.
Drain(c) ==
    /\ conn[c].at = "select"
    /\ resp[c] # <<>>
    /\ resp' = [resp EXCEPT ![c] = Tail(@)]
    /\ \E ok \in BOOLEAN : Goto(c, IF ok THEN "select" ELSE "shutdown")
    /\ UNCHANGED <<frameVars, trieVars, fileVars, dispVars, queue, client_map, nreq, ghostVars>>

\* socket.read returns Ok(0): the peer closed; the task shuts down.
ReadClosed(c) ==
    /\ conn[c].at = "select"
    /\ Goto(c, "shutdown")
    /\ UNCHANGED <<frameVars, trieVars, fileVars, dispVars, queue, client_map, resp, nreq, ghostVars>>

\* The first byte of the buffer is no opcode: the task shuts down.
UnknownOp(c) ==
    /\ conn[c].at = "select"
    /\ Goto(c, "shutdown")
    /\ UNCHANGED <<frameVars, trieVars, fileVars, dispVars, queue, client_map, resp, nreq, ghostVars>>

\* socket.read returns Err: the task returns; its response channel goes
\* with it.
ReadError(c) ==
    /\ conn[c].at = "select"
    /\ conn' = [conn EXCEPT ![c].at = "closed"]
    /\ resp' = [resp EXCEPT ![c] = <<>>]
    /\ UNCHANGED <<frameVars, trieVars, fileVars, dispVars, queue, client_map, nreq, ghostVars>>

\* shutdown: client_map.remove(id) (waits while the dispatcher holds the
\* entry), socket.shutdown(); the task returns.
Shutdown(c) ==
    /\ conn[c].at = "shutdown"
    /\ ~EntryHeld(c)
    /\ conn' = [conn EXCEPT ![c].at = "closed"]
    /\ client_map' = client_map \ {c}
    /\ resp' = [resp EXCEPT ![c] = <<>>]
    /\ UNCHANGED <<frameVars, trieVars, fileVars, dispVars, queue, nreq, ghostVars>>

\* ----------------------------------------------------------------- system
Dispatcher ==
    \/ Startup \/ Recv \/ GetLookup \/ GetSend \/ WalAppend \/ SetApply \/ SetSend
    \/ NoRotate \/ RotateIndex \/ RotateTruncate \/ RotateSpawn

Writer == WriterStart \/ WriterTruncate \/ WriterWrite \/ WriterDone

Connections ==
    \E c \in Clients :
        \/ Connect(c) \/ HelloWrite(c) \/ HelloRead(c)
        \/ SubmitGet(c) \/ SubmitSet(c) \/ Forward(c) \/ Drain(c)
        \/ ReadClosed(c) \/ UnknownOp(c) \/ ReadError(c) \/ Shutdown(c)

Next == Dispatcher \/ Writer \/ Connections

Spec == Init /\ [][Next]_vars

\* The same system serving a single connection.
OneClient == "c1"

Connection ==
    \/ Connect(OneClient) \/ HelloWrite(OneClient) \/ HelloRead(OneClient)
    \/ SubmitGet(OneClient) \/ SubmitSet(OneClient) \/ Forward(OneClient)
    \/ Drain(OneClient) \/ ReadClosed(OneClient) \/ UnknownOp(OneClient)
    \/ ReadError(OneClient) \/ Shutdown(OneClient)

NextOne == Dispatcher \/ Writer \/ Connection

SpecOne == Init /\ [][NextOne]_vars

\* The process is killed and started again: the files stay, all else is new.
Crash ==
    /\ ncrash < MaxCrash
    /\ ncrash' = ncrash + 1
    /\ trie' = TrieNew
    /\ file_index' = 0
    /\ saving' = FALSE
    /\ tasks' = <<>>
    /\ pc' = "start"
    /\ event' = NoEvent
    /\ queue' = <<>>
    /\ client_map' = {}
    /\ conn' = [c \in Clients |-> NoConn]
    /\ resp' = [c \in Clients |-> <<>>]
    /\ UNCHANGED <<frameVars, hist, fileVars, nreq, last_wal, ref_trie, recovered>>

\* One connection that stays, writing one key; the dispatcher, the snapshot
\* writers and crashes.
CrashClient == "c1"
CrashKey == <<0>>

SubmitCrashSet ==
    \E v \in SysValues :
        Framed(CrashClient, [kind |-> "SET", id |-> CrashClient, key |-> CrashKey,
                             value |-> v, n |-> 0])

NextCrash ==
    \/ Startup \/ Recv \/ WalAppend \/ SetApply \/ SetSend
    \/ NoRotate \/ RotateIndex \/ RotateTruncate \/ RotateSpawn
    \/ Writer
    \/ Connect(CrashClient) \/ HelloWrite(CrashClient) \/ HelloRead(CrashClient)
    \/ SubmitCrashSet \/ Forward(CrashClient) \/ Drain(CrashClient)
    \/ Crash

SpecCrash == Init /\ [][NextCrash]_vars

\* One connection that stays, writing one key, the dispatcher and the
\* snapshot writers: enough SETs for a slot to be rotated to twice.
MaxSnapSets == 3

SubmitSnapSet ==
    /\ conn[OneClient].at = "select"
    /\ nreq < MaxSnapSets
    /\ \E v \in SysValues :
        conn' = [conn EXCEPT ![OneClient].at = "send",
                             ![OneClient].ev = [kind |-> "SET", id |-> OneClient,
                                                key |-> CrashKey, value |-> v,
                                                n |-> nreq + 1]]
    /\ nreq' = nreq + 1
    /\ UNCHANGED <<frameVars, trieVars, fileVars, dispVars, queue, client_map, resp, ghostVars>>

NextSnap ==
    \/ Startup \/ Recv \/ WalAppend \/ SetApply \/ SetSend
    \/ NoRotate \/ RotateIndex \/ RotateTruncate \/ RotateSpawn
    \/ Writer
    \/ Connect(OneClient) \/ HelloWrite(OneClient) \/ HelloRead(OneClient)
    \/ SubmitSnapSet \/ Forward(OneClient) \/ Drain(OneClient)

SpecSnap == Init /\ [][NextSnap]_vars

\* --------------------------------------------------- recovery specification
\* Startup on files of any content, again and again with nothing served in
\* between.  The contents: record streams, whole and cut short, streams in
\* which the same key has several values, and bytes that are no record.
FileSamples ==
    { <<>>,
      WalRecord(<<0>>, Some(<<1>>)),
      WalRecord(<<0>>, None),
      WalRecord(<<0>>, Some(<<>>)) \o WalRecord(<<>>, Some(<<0>>)),
      WalRecord(<<0>>, None) \o <<0, 1, 0, 0, 1>>,
      WalRecord(<<0, 1>>, Some(<<1>>)) \o <<0>>,
      <<255, 255, 7>> }
IndexSamples == { <<>>, <<0>>, <<1>>, <<2>>, <<255, 1>> }

RecoverInit ==
    /\ ProcessInit
    /\ FrameIdle
    /\ stream = <<>>
    /\ unread = <<>>
    /\ hist = <<>>
    /\ wal_files \in [Slots -> FileSamples]
    /\ log_files \in [Slots -> FileSamples]
    /\ index_file \in IndexSamples
    /\ nreq = 0
    /\ ncrash = 0
    /\ last_wal = [k \in Keys |-> None]
    /\ ref_trie = TrieNew
    /\ recovered = <<>>

RecoverNext == Startup \/ Crash

SpecRecover == RecoverInit /\ [][RecoverNext]_vars

\* ---------------------------------------------------- restart specification
\* The server started on the files an earlier run left (a WAL that was never
\* rotated, snapshots, an index), serving the GETs of one connection.
WarmFiles ==
    { <<>>,
      WalRecord(<<0>>, Some(<<1>>)),
      WalRecord(<<1>>, None) \o WalRecord(<<1>>, Some(<<>>)) }
WarmIndex == { <<>>, <<1>> }

WarmInit ==
    /\ ProcessInit
    /\ FrameIdle
    /\ stream = <<>>
    /\ unread = <<>>
    /\ hist = <<>>
    /\ wal_files \in [Slots -> WarmFiles]
    /\ log_files \in [Slots -> WarmFiles]
    /\ index_file \in WarmIndex
    /\ nreq = 0
    /\ ncrash = 0
    /\ last_wal = [k \in Keys |-> None]
    /\ ref_trie = TrieNew
    /\ recovered = <<>>

NextWarm ==
    \/ Startup \/ Recv \/ GetLookup \/ GetSend
    \/ NoRotate \/ RotateIndex \/ RotateTruncate \/ RotateSpawn
    \/ Writer
    \/ Connect(OneClient) \/ HelloWrite(OneClient) \/ HelloRead(OneClient)
    \/ SubmitGet(OneClient) \/ Forward(OneClient) \/ Drain(OneClient)

SpecWarm == WarmInit /\ [][NextWarm]_vars

\* ---------------------------------------------------- framing specification
\* One connection task at the level of bytes: the socket reads, in pieces of
\* any size, of the stream a peer sends, the frames the top of the request
\* loop takes off the buffer, and the bytes written for a response.

\* The event of connection OneClient for a framed request.
GetEvent(key) ==
    [kind |-> "GET", id |-> OneClient, key |-> key, value |-> None, n |-> 0]
SetEvent(key, value) ==
    [kind |-> "SET", id |-> OneClient, key |-> key, value |-> value, n |-> 0]

\* The two length bytes of a frame as the loop reads them: masked.
FrameLen(hi, lo) == (hi * 256 + lo) % (LEN_MASK + 1)

\* A top of the loop that frames a SET as soon as its value-length field is
\* in the buffer, with whatever part of the value has arrived.
FrameTopTakesPartialValue(buf) ==
    LET none == [b |-> buf, ev |-> <<>>, bad |-> FALSE]
        key_len == FrameLen(buf[2], buf[3])
        value_len == FrameLen(buf[1 + 2 + key_len + 1], buf[1 + 2 + key_len + 2])
        key == SubSeq(buf, 1 + 2 + 1, 1 + 2 + key_len)
        have == IF Len(buf) < 1 + 2 + key_len + 2 + value_len
                THEN Len(buf) ELSE 1 + 2 + key_len + 2 + value_len
    IN  IF buf = <<>> THEN none
        ELSE IF buf[1] = OP_GET
        THEN IF Len(buf) > 3 /\ Len(buf) >= 1 + 2 + key_len
             THEN [b |-> SubSeq(buf, 1 + 2 + key_len + 1, Len(buf)),
                   ev |-> <<GetEvent(key)>>, bad |-> FALSE]
             ELSE none
        ELSE IF buf[1] = OP_SET
        THEN IF Len(buf) > 3 /\ Len(buf) >= 1 + 2 + key_len + 2
             THEN [b |-> SubSeq(buf, have + 1, Len(buf)),
                   ev |-> <<SetEvent(key,
                              Some(SubSeq(buf, 1 + 2 + key_len + 2 + 1, have)))>>,
                   bad |-> FALSE]
             ELSE none
        ELSE [b |-> buf, ev |-> <<>>, bad |-> TRUE]

\* The top of the request loop on buffer buf: the buffer it leaves, the event
\* it sends (at most one), and whether it shuts the connection down.  A GET
\* or SET is framed when the buffer holds more than 3 bytes and all the bytes
\* its masked length fields call for; the value of a SET is the bytes after
\* its length field.
FrameTop(buf) ==
    LET none == [b |-> buf, ev |-> <<>>, bad |-> FALSE]
        key_len == FrameLen(buf[2], buf[3])
        value_len == FrameLen(buf[1 + 2 + key_len + 1], buf[1 + 2 + key_len + 2])
        key == SubSeq(buf, 1 + 2 + 1, 1 + 2 + key_len)
    IN  IF buf = <<>> THEN none
        ELSE IF buf[1] = OP_GET
        THEN IF Len(buf) > 3 /\ Len(buf) >= 1 + 2 + key_len
             THEN [b |-> SubSeq(buf, 1 + 2 + key_len + 1, Len(buf)),
                   ev |-> <<GetEvent(key)>>, bad |-> FALSE]
             ELSE none
        ELSE IF buf[1] = OP_SET
        THEN IF /\ Len(buf) > 3
                /\ Len(buf) >= 1 + 2 + key_len + 2
                /\ Len(buf) >= 1 + 2 + key_len + 2 + value_len
             THEN [b |-> SubSeq(buf, 1 + 2 + key_len + 2 + value_len + 1, Len(buf)),
                   ev |-> <<SetEvent(key,
                              Some(SubSeq(buf, 1 + 2 + key_len + 2 + 1,
                                          1 + 2 + key_len + 2 + value_len)))>>,
                   bad |-> FALSE]
             ELSE none
        ELSE [b |-> buf, ev |-> <<>>, bad |-> TRUE]

\* The bytes the task writes for a response: RES_GET, the masked length of
\* the value as a u16, the value; RES_SET alone.  The value is handled as a
\* byte vector: a result with no value has no bytes.
ResBytes(r) ==
    IF r.kind = "GET"
    THEN <<RES_GET, (Len(r.value.v) % (LEN_MASK + 1)) \div 256,
           (Len(r.value.v) % (LEN_MASK + 1)) % 256>> \o r.value.v
    ELSE <<RES_SET>>

\* The frames the client program writes for `get key` and `set key value`.
GetFrame(key) == <<OP_GET, LenHi(Len(key)), LenLo(Len(key))>> \o key
SetFrame(key, value) ==
    <<OP_SET, LenHi(Len(key)), LenLo(Len(key))>> \o key
    \o <<LenHi(Len(value)), LenLo(Len(value))>> \o value

\* A SET frame with the given bytes in its value-length field.
RawSetFrame(key, hi, lo, value) ==
    <<OP_SET, LenHi(Len(key)), LenLo(Len(key))>> \o key \o <<hi, lo>> \o value

\* The request frames of the streams: GETs and SETs with empty and non-empty
\* keys and values, a SET whose length field has the top bit set, and the
\* tombstone SET.
FrameSamples ==
    { GetFrame(<<>>), GetFrame(<<0>>),
      SetFrame(<<0>>, <<1>>), SetFrame(<<>>, <<>>), SetFrame(<<0, 1>>, <<1, 0>>),
      RawSetFrame(<<1>>, 128, 1, <<7>>),
      RawSetFrame(<<0>>, 255, 255, <<>>) }

\* The streams of at most n frames.
RECURSIVE StreamsOf(_)
StreamsOf(n) ==
    IF n = 0 THEN {<<>>}
    ELSE LET shorter == StreamsOf(n - 1)
         IN  shorter \cup {s \o f : s \in shorter, f \in FrameSamples}

\* The streams a peer sends: frames one after another, and one stream that
\* goes on with a byte that is no opcode.
StreamSamples == StreamsOf(MaxFrames) \cup {GetFrame(<<0>>) \o <<7>>}

\* The responses the connection task finds on its queue.
ResSamples ==
    {[kind |-> "GET", id |-> OneClient, value |-> v, n |-> 0] : v \in Values}
    \cup {[kind |-> "SET", id |-> OneClient, value |-> None, n |-> 0]}

FrameInit ==
    /\ ProcessInit
    /\ FrameIdle
    /\ stream \in StreamSamples
    /\ unread = stream
    /\ hist = <<>>
    /\ wal_files = [i \in Slots |-> <<>>]
    /\ log_files = [i \in Slots |-> <<>>]
    /\ index_file = <<>>
    /\ nreq = 0
    /\ ncrash = 0
    /\ last_wal = [k \in Keys |-> None]
    /\ ref_trie = TrieNew
    /\ recovered = <<>>

\* The top of the loop that follows a wake-up of the select, on buffer buf.
LoopTop(buf) ==
    /\ b' = FrameTop(buf).b
    /\ events' = events \o FrameTop(buf).ev
    /\ shut' = FrameTop(buf).bad

\* socket.read delivers the next n bytes (n > 0): they are appended to the
\* buffer, and the loop goes round.
SockRead ==
    /\ ~shut
    /\ unread # <<>>
    /\ \E n \in 1 .. Len(unread) :
        /\ unread' = SubSeq(unread, n + 1, Len(unread))
        /\ LoopTop(b \o SubSeq(unread, 1, n))
    /\ UNCHANGED <<trieVars, fileVars, dispVars, connVars, ghostVars, stream, out,
                   last_res>>

\* client_rx.recv() delivers a response: it is written to the socket, and the
\* loop goes round.
SockRespond ==
    /\ ~shut
    /\ \E r \in ResSamples :
        /\ out' = ResBytes(r)
        /\ last_res' = r
    /\ LoopTop(b)
    /\ UNCHANGED <<trieVars, fileVars, dispVars, connVars, ghostVars, stream, unread>>

FrameNext == SockRead \/ SockRespond

SpecFrame == FrameInit /\ [][FrameNext]_vars

\* ------------------------------------------------------------ trie claims
\* The set operations of the history that were made on key k, in order.
OpsOn(k) == SelectSeq(hist, LAMBDA o : o.key = k)
HasSet(k) == OpsOn(k) # <<>>
LastValue(k) == OpsOn(k)[Len(OpsOn(k))].value
LastOp == hist[Len(hist)]

\* C3: set-then-get.  In every trie reached by any sequence of sets, a key
\* whose latest set wrote Some(v) (whatever was set on other keys before or
\* after, the empty key, prefixes and extensions of stored keys and the empty
\* value included) reads back Some(v).
SetThenGet ==
    \A k \in Keys :
        (HasSet(k) /\ LastValue(k).some) => Get(trie, k) = LastValue(k)

\* C3 witness: a key that is a proper prefix of a stored key and an extension
\* of the (stored) empty key holds the empty value written last.
SetThenGetWitness ==
    /\ Len(hist) = 3
    /\ LastOp = [key |-> <<0>>, value |-> Some(<<>>)]
    /\ HasSet(<<>>) /\ LastValue(<<>>).some
    /\ HasSet(<<0, 1>>) /\ LastValue(<<0, 1>>).some
    /\ Get(trie, <<0>>) = Some(<<>>)

\* C4: a key on which no set was performed reads as None, also when a node
\* exists for it (it is a proper prefix of a stored key) or when it extends a
\* stored key.
NeverSetIsNone ==
    \A k \in Keys : ~HasSet(k) => Get(trie, k) = None

\* C4 witness: <<0>> was never set but has a node (prefix of the stored
\* <<0, 1>>); <<0, 0>> was never set and extends the stored empty key.
NeverSetIsNoneWitness ==
    /\ ~HasSet(<<0>>) /\ <<0>> \in DOMAIN trie
    /\ HasSet(<<0, 1>>) /\ Get(trie, <<0, 1>>).some
    /\ HasSet(<<>>) /\ Get(trie, <<>>).some
    /\ ~HasSet(<<0, 0>>) /\ Get(trie, <<0, 0>>) = None
    /\ Get(trie, <<0>>) = None

\* C5: tombstone.  A key whose last two sets were Some(v) then None reads as
\* None, and a tombstone write leaves the get result of every other key
\* unchanged.
TombstoneProperty ==
    /\ [](\A k \in Keys :
            LET o == OpsOn(k)
            IN  (Len(o) >= 2 /\ o[Len(o) - 1].value.some /\ ~o[Len(o)].value.some)
                    => Get(trie, k) = None)
    /\ [][(hist' # hist /\ ~hist'[Len(hist')].value.some)
            => \A k2 \in Keys \ {hist'[Len(hist')].key} :
                    Get(trie', k2) = Get(trie, k2)]_vars

\* C5 witness: <<0>> was written then tombstoned while its extension <<0, 1>>
\* is stored; <<0>> reads None and <<0, 1>> is still readable.
TombstoneWitness ==
    /\ Len(hist) = 3
    /\ hist[1].key = <<0, 1>> /\ hist[1].value.some
    /\ hist[2].key = <<0>> /\ hist[2].value.some
    /\ hist[3] = [key |-> <<0>>, value |-> None]
    /\ Get(trie, <<0>>) = None
    /\ Get(trie, <<0, 1>>) = hist[1].value

\* The trie obtained from the empty trie by the operations of `ops`.
RECURSIVE ApplyOps(_, _)
ApplyOps(t, ops) ==
    IF ops = <<>> THEN t
    ELSE ApplyOps(Set(t, Head(ops).key, Head(ops).value), Tail(ops))

\* C6: order independence.  A set on k1 leaves get(k2) unchanged for every
\* other key k2, and after any interleaving each key reads what it reads when
\* only its own sets are applied, in their order, to an empty trie.
OrderIndependence ==
    /\ [](\A k \in Keys : Get(trie, k) = Get(ApplyOps(TrieNew, OpsOn(k)), k))
    /\ [][hist' # hist
            => \A k2 \in Keys \ {hist'[Len(hist')].key} :
                    Get(trie', k2) = Get(trie, k2)]_vars

\* C6 witness: sets on <<0>> interleaved with a set on its extension <<0, 0>>.
OrderIndependenceWitness ==
    /\ Len(hist) = 3
    /\ hist[1].key = <<0>> /\ hist[1].value.some
    /\ hist[2].key = <<0, 0>> /\ hist[2].value.some
    /\ hist[3].key = <<0>> /\ hist[3].value.some /\ hist[3].value # hist[1].value
    /\ Get(trie, <<0, 0>>) = hist[2].value

\* ----------------------------------------------------------- codec claims
\* x comes before y in the lexicographic order of byte sequences: x is a
\* proper prefix of y, or x has the smaller byte where they first differ.
LexBefore(x, y) ==
    \/ Len(x) < Len(y) /\ SubSeq(y, 1, Len(x)) = x
    \/ \E i \in 1 .. Len(x) :
           /\ i <= Len(y)
           /\ SubSeq(x, 1, i - 1) = SubSeq(y, 1, i - 1)
           /\ x[i] < y[i]

\* The keys whose value is present in trie t.
PresentKeys(t) == {p \in DOMAIN t : t[p].some}

\* The keys of S in lexicographic order.
RECURSIVE SortKeys(_)
SortKeys(S) ==
    IF S = {} THEN <<>>
    ELSE LET k == CHOOSE m \in S : \A n \in S \ {m} : LexBefore(m, n)
         IN  <<k>> \o SortKeys(S \ {k})

\* One record per key of the sequence ks, with the value t holds for it.
RECURSIVE RecordsFor(_, _)
RecordsFor(t, ks) ==
    IF ks = <<>> THEN <<>>
    ELSE WalRecord(Head(ks), Some(t[Head(ks)].v)) \o RecordsFor(t, Tail(ks))

\* The snapshot of trie t as the format describes it.
ExpectedSnapshot(t) == RecordsFor(t, SortKeys(PresentKeys(t)))

\* The bytes a sequence of writes puts in a file.
RECURSIVE Flatten(_)
Flatten(ws) == IF ws = <<>> THEN <<>> ELSE Head(ws) \o Flatten(Tail(ws))

\* C23: snapshot traversal content and order.  Saving a trie emits one record
\* for every key whose value is present and none for any other key, each key
\* once, in lexicographic order of the keys, a key before the keys it is a
\* proper prefix of.
SaveContentAndOrder == Flatten(Save(trie)) = ExpectedSnapshot(trie)

\* C23 witness: a saved trie with a present key, a tombstoned key on the way to
\* a present descendant, and a present key that sorts after both.
SaveContentAndOrderWitness ==
    /\ SaveContentAndOrder
    /\ <<0, 1>> \in PresentKeys(trie)
    /\ <<1>> \in PresentKeys(trie)
    /\ <<0>> \in DOMAIN trie /\ ~trie[<<0>>].some
    /\ \E i \in 1 .. Len(hist) : hist[i].key = <<0>> /\ ~hist[i].value.some

\* The WAL the dispatcher writes for a sequence of mutations.
RECURSIVE WalStream(_)
WalStream(ops) ==
    IF ops = <<>> THEN <<>>
    ELSE WalRecord(Head(ops).key, Head(ops).value) \o WalStream(Tail(ops))

\* C24: record round-trip.  Loading the WAL records of any sequence of
\* mutations into an empty trie gives the trie those mutations give, applied in
\* order, and loading the records a snapshot save writes gives a trie that
\* reads like the saved one for every key: an empty value comes back as
\* Some(empty), a tombstone as None.  The two length bytes give back every
\* length up to 2^15 - 1 and never read as the tombstone sentinel.
RecordRoundTrip ==
    /\ \A n \in {0, 1, 255, 256, LEN_MASK} :
           /\ (LenHi(n) * 256 + LenLo(n)) % (LEN_MASK + 1) = n
           /\ LenHi(n) * 256 + LenLo(n) # NONE_VALUE_LEN
    /\ Load(TrieNew, WalStream(hist), 0) = trie
    /\ LET loaded == Load(TrieNew, Flatten(Save(trie)), 0)
       IN  \A k \in Keys : Get(loaded, k) = Get(trie, k)

\* C24 witness: the round trip of a history with a tombstone, an empty value
\* and the empty key, the empty value still stored when the trie is saved.
RecordRoundTripWitness ==
    /\ RecordRoundTrip
    /\ \E i \in 1 .. Len(hist) : ~hist[i].value.some
    /\ \E i \in 1 .. Len(hist) : hist[i].key = <<>>
    /\ \E k \in Keys : Get(trie, k) = Some(<<>>)
    /\ \E k \in Keys : HasSet(k) /\ Get(trie, k) = None

\* The number of records of the WAL of ops that lie wholly in its first n bytes.
RECURSIVE CompleteIn(_, _)
CompleteIn(ops, n) ==
    IF ops = <<>> THEN 0
    ELSE LET l == Len(WalRecord(Head(ops).key, Head(ops).value))
         IN  IF l <= n THEN 1 + CompleteIn(Tail(ops), n - l) ELSE 0

\* C25: a truncated tail is discarded.  Loading any byte-prefix of a valid
\* record stream applies exactly the records that lie completely inside the
\* prefix, in order, and nothing of the record the prefix cuts, wherever the
\* cut falls.  (Stated for the prefixes that end in the last record of the
\* stream of the history, from its first byte to its last: a prefix that ends
\* in an earlier record is such a prefix of the stream of a shorter history.)
TruncatedTailDiscarded ==
    LET records == WalStream(hist)
        first == IF hist = <<>> THEN 0
                 ELSE Len(records) - Len(WalRecord(LastOp.key, LastOp.value))
    IN  \A n \in first .. Len(records) :
            Load(TrieNew, SubSeq(records, 1, n), 0)
                = ApplyOps(TrieNew, SubSeq(hist, 1, CompleteIn(hist, n)))

\* C25 witness: a stream of MaxOps records, the last with a key and a value of
\* one byte or more, so that its prefixes cut the last record inside the key
\* length, the key, the value length and the value, after the whole records
\* before it; the last record changes what its key reads.
TruncatedTailWitness ==
    /\ TruncatedTailDiscarded
    /\ Len(hist) = MaxOps
    /\ Len(LastOp.key) > 0
    /\ LastOp.value.some /\ Len(LastOp.value.v) > 0
    /\ CompleteIn(hist, Len(WalStream(hist)) - 1) = MaxOps - 1
    /\ Get(trie, LastOp.key) # Get(ApplyOps(TrieNew, SubSeq(hist, 1, MaxOps - 1)), LastOp.key)

\* ---------------------------------------------------------- system claims
IsSuffix(r, f) == Len(f) >= Len(r) /\ SubSeq(f, Len(f) - Len(r) + 1, Len(f)) = r

\* The trie a startup would rebuild from the files as they are now.
RecoveredNow == Replay(TrieNew, ReadIndex(index_file), wal_files, log_files)

\* C1: whenever the process stops, the startup replay of the files gives
\* every key the value of the last SET appended to a WAL (None for a
\* tombstone or when there was none).
CrashRecoveryKeepsLatest ==
    \A k \in Keys : Get(RecoveredNow, k) = last_wal[k]

\* The record of the SET being processed ends the active WAL.
RecordInWal ==
    /\ event.kind = "SET"
    /\ IsSuffix(WalRecord(event.key, event.value), wal_files[file_index])

\* This step enqueues a SET acknowledgment.
AckEnqueued ==
    \E c \in Clients :
        /\ Len(resp'[c]) = Len(resp[c]) + 1
        /\ resp'[c][Len(resp'[c])].kind = "SET"

\* C2: write-ahead ordering.  When the dispatcher mutates the trie for a SET
\* the record is already at the end of the active WAL, and when the SET
\* acknowledgment is enqueued the record is in the active WAL and the trie
\* already holds the written value.
WriteAheadOrdering ==
    [][ /\ (trie' # trie /\ pc # "start") => RecordInWal
        /\ AckEnqueued => (RecordInWal /\ Get(trie, event.key) = event.value)
      ]_vars

\* C2 witness: a SET was acknowledged after its record reached the WAL and
\* the trie.
WriteAheadWitness ==
    /\ pc = "check"
    /\ event.kind = "SET" /\ event.value.some
    /\ resp[event.id] # <<>> /\ resp[event.id][Len(resp[event.id])].kind = "SET"
    /\ RecordInWal
    /\ Get(trie, event.key) = event.value

\* C7: recovery idempotence.  Every startup in a row recovers the same trie
\* as the first, and a startup leaves the WAL and snapshot files as they are;
\* the index file changes only by the write of the default 0.
RecoveryIdempotent ==
    /\ [](\A i \in 1 .. Len(recovered) : recovered[i] = recovered[1])
    /\ [][ /\ wal_files' = wal_files
           /\ log_files' = log_files
           /\ index_file' # index_file => index_file' = RefreshIndexFile(index_file, 0)
         ]_vars

\* C7 witness: a second recovery ran on files whose replay order matters (the
\* two WALs disagree on a key), after the first one replaced the out-of-range
\* index byte 255 by the default.
RecoveryIdempotentWitness ==
    /\ Len(recovered) = 2
    /\ index_file = <<0, 1>>
    /\ wal_files[0] = WalRecord(<<0>>, None)
    /\ wal_files[1] = WalRecord(<<0>>, Some(<<1>>))
    /\ Get(trie, <<0>>) = None

\* C8: rotation is invisible.  The live trie reads, for every key, as the
\* trie of the dispatcher that applies the same SETs and never rotates, and
\* every GET response carries the value that dispatcher would send.
RotationInvisible ==
    /\ [](\A k \in Keys : Get(trie, k) = Get(ref_trie, k))
    /\ [][\A c \in Clients :
            (Len(resp'[c]) = Len(resp[c]) + 1 /\ resp'[c][Len(resp'[c])].kind = "GET")
                => resp'[c][Len(resp'[c])].value = Get(ref_trie, event.key)]_vars

\* C8 witness: a GET was answered with a stored value after a rotation whose
\* snapshot writer had started.
RotationInvisibleWitness ==
    /\ pc = "check"
    /\ event.kind = "GET"
    /\ resp[event.id] # <<>> /\ resp[event.id][Len(resp[event.id])].kind = "GET"
    /\ resp[event.id][Len(resp[event.id])].value.some
    /\ file_index = 1
    /\ saving

\* The connection task of c returns in this step.
Terminates(c) == conn[c].at # "closed" /\ conn'[c].at = "closed"

\* C11: registry cleanup on connection end.  Whenever a connection task
\* returns, for whatever reason, its id is not in the registry afterwards and
\* the entries of the other connections are as before.
RegistryCleanup ==
    [][\A c \in Clients :
        Terminates(c) => /\ c \notin client_map'
                         /\ client_map' \ {c} = client_map \ {c}]_vars

\* The requests of connection c that are on their way, oldest first: answered
\* and not yet written out, with the dispatcher, in the shared queue, about
\* to be sent.
Pipeline(c) ==
    resp[c]
    \o (IF event.id = c /\ pc \in {"get", "get_send", "wal", "set", "set_send"}
        THEN <<event>> ELSE <<>>)
    \o SelectSeq(queue, LAMBDA e : e.id = c)
    \o (IF conn[c].at = "send" THEN <<conn[c].ev>> ELSE <<>>)

\* The requests of q are in the order of their submission.
InSubmissionOrder(q) == \A i, j \in 1 .. Len(q) : i < j => q[i].n < q[j].n

\* This step enqueues a GET response for connection c.
GetAnswered(c) ==
    /\ Len(resp'[c]) = Len(resp[c]) + 1
    /\ resp'[c][Len(resp'[c])].kind = "GET"

\* C12: linearization in queue order.  Every GET response carries the value
\* of the last SET on its key that the dispatcher took off the shared queue
\* before it (None when there is none or it was a tombstone), and the
\* responses and requests of one connection stay in the order of submission.
QueueOrderLinearization ==
    /\ [](\A c \in Clients : InSubmissionOrder(Pipeline(c)))
    /\ [][\A c \in Clients :
            GetAnswered(c)
                => resp'[c][Len(resp'[c])].value = last_wal[event.key]]_vars

\* The dispatcher finishes the processing of the request `event` in this
\* step (it goes on to the size check).
Processed == pc \in {"get", "get_send", "set", "set_send"} /\ pc' = "check"

\* The response the request `event` is due.
ResponseDue ==
    [kind |-> event.kind, id |-> event.id, n |-> event.n,
     value |-> IF event.kind = "GET" THEN Get(trie, event.key) ELSE None]

\* C13: one response per request, routed to its origin.  When the dispatcher
\* finishes a request whose id is registered, that step enqueues exactly the
\* response due (a GETRESULT with the trie's value for the key, a SETRESULT
\* for a SET) on that id's queue and on no other; when the id is absent it
\* enqueues nothing; and no other step of the dispatcher enqueues a response.
OneResponsePerRequest ==
    [][ /\ Processed =>
            resp' = IF event.id \in client_map
                    THEN [resp EXCEPT ![event.id] = Append(@, ResponseDue)]
                    ELSE resp
        /\ (\E c \in Clients : Len(resp'[c]) > Len(resp[c])) => Processed
      ]_vars

\* The dispatcher waits in send_event_res for room on the response queue of
\* connection c, holding c's registry entry.
DispatcherBlockedOn(c) == EntryHeld(c) /\ ~CanSend(c)

\* The connection task of c waits to submit a request to the full shared
\* queue, or to remove its registry entry.
ConnectionBlocked(c) ==
    \/ conn[c].at = "send" /\ ~(Len(queue) < QueueCap)
    \/ conn[c].at = "shutdown" /\ EntryHeld(c)

\* C14: no deadlock between dispatcher and connections.  In no reachable
\* state is the dispatcher blocked delivering a response to a connection
\* whose task is itself blocked submitting a request or removing its entry.
NoDispatcherDeadlock ==
    \A c \in Clients : ~(DispatcherBlockedOn(c) /\ ConnectionBlocked(c))

\* This step appends an event of connection c to the shared request queue.
Forwards(c) ==
    /\ Len(queue') = Len(queue) + 1
    /\ queue'[Len(queue')].id = c

\* The handshake of connection c fails in this step: the hello write fails,
\* or the wait for the echo ends with an error or another byte.
HandshakeFails(c) ==
    \/ conn[c].at = "hello_write" /\ conn'[c].at # "hello_write" /\ conn'[c].hello # 1
    \/ conn[c].at = "hello_read" /\ conn'[c].at # "hello_read" /\ conn'[c].hello # 2

\* C18: the handshake gates requests.  An event of a connection enters the
\* shared queue only after the server wrote the hello byte and read the same
\* byte back on that connection; a connection whose handshake fails is
\* terminated there, and a connection that has not passed the handshake is
\* never in the request loop and has no event to send.
HandshakeGatesRequests ==
    /\ [](\A c \in Clients :
            conn[c].hello # 2 => /\ conn[c].at \notin {"select", "send"}
                                 /\ conn[c].ev = NoEvent)
    /\ [][\A c \in Clients :
            /\ Forwards(c) => conn[c].hello = 2
            /\ HandshakeFails(c) => conn'[c].at = "shutdown"]_vars

\* C18 witness: the connection whose handshake was completed has an event
\* in the shared queue.
HandshakeGatesWitness ==
    /\ queue # <<>>
    /\ queue[1].id = OneClient
    /\ conn[OneClient].hello = 2

\* C20: the persisted index names the slot being written.  After startup
\* the index file holds 0 or 1, the number of the dispatcher's active slot;
\* and whenever a WAL changes, by an append or by the truncation of a
\* rotation, the index file already names its slot.
IndexNamesWrittenSlot ==
    /\ [](pc # "start" => /\ index_file # <<>>
                          /\ index_file[1] \in {0, 1}
                          /\ index_file[1] = file_index)
    /\ [][\A i \in Slots :
            wal_files'[i] # wal_files[i]
                => (index_file # <<>> /\ index_file[1] = i)]_vars

\* C20 witness: after a rotation to slot 1 and a restart that read index 1,
\* a SET was appended to the WAL of slot 1.
IndexNamesWrittenSlotWitness ==
    /\ ncrash = 1
    /\ pc = "set"
    /\ file_index = 1
    /\ index_file = <<1>>
    /\ wal_files[1] = WalRecord(event.key, event.value)
    /\ wal_files[0] # <<>>

\* C26: index defaulting.  When startup finds the index file empty or its
\* first byte other than 0 and 1, slot 0 becomes the active slot and the byte 0
\* is written at offset 0 of the index file, the rest of the file as it was;
\* when the byte is 0 or 1 it is the active slot and the file is not
\* rewritten.  No request is served before.
IndexDefaulting ==
    [][ /\ (pc = "start" /\ pc' # pc)
           => /\ pc' = "recv"
              /\ IF index_file = <<>> \/ index_file[1] \notin {0, 1}
                 THEN /\ file_index' = 0
                      /\ index_file' = <<0>> \o SubSeq(index_file, 2, Len(index_file))
                 ELSE /\ file_index' = index_file[1]
                      /\ index_file' = index_file
        /\ pc = "start" => UNCHANGED <<wal_files, log_files, queue, resp>> ]_vars

\* C26 witness: a startup that found a two-byte index file with a first byte
\* out of range and overwrote that byte alone, going on with slot 0.
IndexDefaultingWitness ==
    /\ pc = "recv"
    /\ ncrash = 0
    /\ index_file = <<0, 1>>
    /\ file_index = 0

\* ---------------------------------------------------------- replay claims
\* The records of a record stream, in order: [2-byte key length][key]
\* [2-byte value length, or 0xFFFF for a tombstone][value]; a last record
\* that is cut short is left out.
RECURSIVE RecordsOf(_)
RecordsOf(f) ==
    IF Len(f) < 2 THEN <<>>
    ELSE LET kl == (f[1] * 256 + f[2]) % 32768
         IN  IF Len(f) < 2 + kl + 2 THEN <<>>
             ELSE LET field == f[2 + kl + 1] * 256 + f[2 + kl + 2]
                      vl == IF field = 65535 THEN 0 ELSE field % 32768
                  IN  IF Len(f) < 2 + kl + 2 + vl THEN <<>>
                      ELSE << [key |-> SubSeq(f, 3, 2 + kl),
                               value |-> IF field = 65535 THEN None
                                         ELSE Some(SubSeq(f, 2 + kl + 3, 2 + kl + 2 + vl))] >>
                           \o RecordsOf(SubSeq(f, 2 + kl + 2 + vl + 1, Len(f)))

\* The records of the four streams in the order of the claim, for startup
\* index i: inactive snapshot, inactive WAL, active snapshot, active WAL.
ReplayStreams(i) ==
    RecordsOf(log_files[1 - i]) \o RecordsOf(wal_files[1 - i])
    \o RecordsOf(log_files[i]) \o RecordsOf(wal_files[i])

\* The value of the last record of q that mentions key k; None when no
\* record does.
LastMention(q, k) ==
    LET m == SelectSeq(q, LAMBDA r : r.key = k)
    IN  IF m = <<>> THEN None ELSE m[Len(m)].value

\* C19: replay order and last-source-wins.  After startup every key reads
\* as the last record that mentions it in the four streams taken in the order
\* inactive snapshot, inactive WAL, active snapshot, active WAL (None for a
\* tombstone record or when no record mentions it).
ReplayLastSourceWins ==
    pc # "start" =>
        \A k \in Keys : Get(trie, k) = LastMention(ReplayStreams(file_index), k)

\* C19 witness: started with index 1; key <<0>> has a value in the inactive
\* WAL and in the active snapshot, and a tombstone in the active WAL; it
\* reads None.
ReplayLastSourceWinsWitness ==
    /\ pc = "recv"
    /\ file_index = 1
    /\ wal_files[0] = WalRecord(<<0>>, Some(<<1>>))
    /\ log_files[1] = WalRecord(<<0>>, Some(<<1>>))
    /\ wal_files[1] = WalRecord(<<0>>, None)
    /\ Get(trie, <<0>>) = None

\* --------------------------------------------------------- framing claims
IsPrefix(p, q) == Len(p) <= Len(q) /\ SubSeq(q, 1, Len(p)) = p

\* The events the task sends when the bytes of buf arrive in a single read:
\* one frame per round of the loop, until no frame is left.
RECURSIVE SingleRead(_)
SingleRead(buf) ==
    IF FrameTop(buf).ev = <<>> THEN <<>>
    ELSE FrameTop(buf).ev \o SingleRead(FrameTop(buf).b)

\* Nothing is left to do on the connection: it has shut down, or every byte
\* was read and the buffer holds no whole frame.
Quiescent ==
    \/ shut
    \/ unread = <<>> /\ FrameTop(b).ev = <<>> /\ ~FrameTop(b).bad

\* C15: framing is independent of read boundaries.  However the stream is
\* cut into reads, the events sent so far are the first events of the
\* single-read run of the whole stream (so none is built from a frame that
\* has not fully arrived), and once nothing is left to do they are all of
\* them, in the same order.
FramingIndependentOfReads ==
    /\ IsPrefix(events, SingleRead(stream))
    /\ Quiescent => events = SingleRead(stream)

\* C15 witness: the reads cut the stream inside the second frame; the SET of
\* the first frame was sent, the two bytes of the GET wait in the buffer.
FramingWitness ==
    /\ stream = SetFrame(<<0, 1>>, <<1, 0>>) \o GetFrame(<<0>>)
    /\ events = <<SetEvent(<<0, 1>>, Some(<<1, 0>>))>>
    /\ b = <<OP_GET, 0>>
    /\ Len(unread) = 2

\* SET frames by the bytes of their value-length field: a plain length, a
\* length with the top bit set, the tombstone.
SetFrameCases ==
    { [key |-> <<0>>, hi |-> 0, lo |-> 1, value |-> <<1>>],
      [key |-> <<>>, hi |-> 0, lo |-> 0, value |-> <<>>],
      [key |-> <<1>>, hi |-> 128, lo |-> 1, value |-> <<7>>],
      [key |-> <<0>>, hi |-> 255, lo |-> 255, value |-> <<>>] }

\* C16: tombstone SET on the wire.  Once the bytes of a SET frame are read,
\* the task has sent one SET for its key: with no value when the value-length
\* field is 0xFFFF (no value bytes follow), else with the (field & 0x7FFF)
\* bytes that follow as its value.
TombstoneOnWire ==
    \A c \in SetFrameCases :
        (stream = RawSetFrame(c.key, c.hi, c.lo, c.value) /\ unread = <<>>)
            => events = <<SetEvent(c.key,
                                   IF c.hi * 256 + c.lo = NONE_VALUE_LEN
                                   THEN None ELSE Some(c.value))>>

\* C17: the GET response tells absent from empty.  The bytes written for a
\* GETRESULT are 0x81, 0xFF, 0xFF and nothing more when it has no value, and
\* 0x81, the big-endian length n, the n value bytes when it has one (n may
\* be 0).
GetResponseEncoding ==
    last_res.kind = "GET" =>
        out = IF last_res.value.some
              THEN <<RES_GET, Len(last_res.value.v) \div 256,
                     Len(last_res.value.v) % 256>> \o last_res.value.v
              ELSE <<RES_GET, NONE_VALUE_LEN \div 256, NONE_VALUE_LEN % 256>>

\* C21: rotation keeps the fallback slot intact.  From a rotation until the
\* next one, the WAL and the snapshot file of the slot that is not active are
\* byte-for-byte unchanged: no step of the dispatcher or of a snapshot writer
\* changes them.
FallbackSlotIntact ==
    [][ /\ wal_files'[1 - file_index'] = wal_files[1 - file_index']
        /\ log_files'[1 - file_index'] = log_files[1 - file_index'] ]_vars

\* C22: the snapshot is a frozen copy.  The clone a rotation hands to its
\* writer holds what the live trie holds at the rotation; a step that changes
\* the live trie changes neither a clone nor a snapshot file; a writer step
\* never changes the live trie; and when a writer ends, the records in its
\* snapshot file are exactly the pairs the live trie held at the rotation.
SnapshotIsFrozenCopy ==
    [][ /\ (pc = "spawn" /\ pc' = "recv")
           => \A k \in Keys : Get(tasks'[Len(tasks')].clone_trie, k) = Get(trie, k)
        /\ trie' # trie => tasks' = tasks /\ log_files' = log_files
        /\ (tasks' # tasks /\ pc' = pc) => trie' = trie
        /\ \A i \in 1 .. Len(tasks) :
               (tasks[i].at = "save" /\ tasks[i].todo = <<>> /\ tasks' = RemoveAt(tasks, i))
               => log_files[tasks[i].slot] = ExpectedSnapshot(tasks[i].clone_trie) ]_vars

\* C27 as stated: GET never touches persistence.  No step the dispatcher takes
\* for a GET, from taking it off the queue to waiting for the next request,
\* changes a WAL, a snapshot file, the index file or the trie, whatever the
\* size of the active WAL.
GetNeverTouchesPersistence ==
    [][ (event.kind = "GET" /\ pc' # pc)
        => UNCHANGED <<wal_files, log_files, index_file, trie>> ]_vars

\* C27: looking a GET up and sending its response changes no WAL, no snapshot
\* file, not the index file, not the active slot and not the trie, and neither
\* does the rotation check after it when it finds nothing to rotate; files
\* change only when that check starts a rotation.
GetServiceTouchesNothing ==
    [][ (/\ pc' # pc
         /\ \/ pc \in {"get", "get_send"}
            \/ pc = "check" /\ event.kind = "GET" /\ ~MustRotate)
        => UNCHANGED <<wal_files, log_files, index_file, file_index, trie>> ]_vars

\* C27 witness: a GET for a key the trie has no node for has been answered,
\* and the check after it found the active WAL above the threshold and flipped
\* the index.
GetServiceWitness ==
    /\ pc = "truncate"
    /\ resp[OneClient] # <<>>
    /\ resp[OneClient][1].kind = "GET"
    /\ \A k \in SysKeys : k \notin DOMAIN trie
    /\ file_index = 1
    /\ index_file = <<1>>

\* A whole request frame lies at the front of buf: an opcode, the two bytes of
\* the key length, the key and, for a SET, the two bytes of the value length
\* and the value (lengths masked as the loop masks them).
CompleteFrameAtFront(buf) ==
    /\ Len(buf) >= 3
    /\ LET key_len == FrameLen(buf[2], buf[3])
       IN  \/ buf[1] = OP_GET /\ Len(buf) >= 1 + 2 + key_len
           \/ /\ buf[1] = OP_SET
              /\ Len(buf) >= 1 + 2 + key_len + 2
              /\ Len(buf) >= 1 + 2 + key_len + 2
                             + FrameLen(buf[1 + 2 + key_len + 1], buf[1 + 2 + key_len + 2])

\* C28: buffered complete frames are all extracted before waiting.  Whenever
\* the connection task waits for socket input or a response, its buffer holds
\* no complete frame at the front: every frame that is fully present, a 3-byte
\* GET with an empty key and a second frame of the same read included, has been
\* taken off the buffer and forwarded.
NoCompleteFrameWhileWaiting == ~shut => ~CompleteFrameAtFront(b)

\* C29: the live state matches the durable state.  Whenever the dispatcher
\* waits on the request queue and no snapshot writer is running, the live trie
\* reads for every key what a trie rebuilt from the current files by the
\* startup replay reads.
LiveMatchesDurable ==
    (pc = "recv" /\ tasks = <<>>)
    => \A k \in Keys :
           Get(trie, k)
           = Get(Replay(TrieNew, ReadIndex(index_file), wal_files, log_files), k)

\* C9: at most one rotation / snapshot writer is in flight.
AtMostOneSnapshot ==
    Len(tasks) + (IF pc \in {"truncate", "spawn"} THEN 1 ELSE 0) <= 1

\* C10: every processed SET mutates the store: once the dispatcher is past
\* a SET, the trie holds its value for its key.
EverySetMutates ==
    (pc = "check" /\ event.kind = "SET") => Get(trie, event.key) = event.value

====
